---- MODULE Spec2Model ----
(***************************************************************************)
(* State-machine model of src/pastebin_crawler.py: the loading of the      *)
(* rules (Crawler.read_regexes), the poll / dedup / classify / persist     *)
(* loop of Crawler.start with its backoff states, the                      *)
(* operator interrupt (KeyboardInterrupt) and the persistence steps of     *)
(* Crawler.save_result.                                                    *)
(*                                                                         *)
(* Conventions.  Strings the program inspects character by character      *)
(* (paste identifiers, patterns, paste bodies) are sequences of one-       *)
(* character strings.  prev_checked_ids and new_checked_ids are Python     *)
(* lists that the program only ever reads with "in"; they are modelled by  *)
(* the set of their elements.  Numbers that may be int or float carry      *)
(* their Python type, because '{:d}'.format accepts only an int; their     *)
(* value is kept in tenths of a second.  get_timestamp() is read within    *)
(* one second and yields the fixed value Timestamp.                        *)
(***************************************************************************)
EXTENDS Integers, Sequences, FiniteSets, TLC

VARIABLES
    pc,                      \* position of the main thread in the program
    exc,                     \* exception that ended the process ("" while running)
    \* Crawler.start parameters (parse_input)
    flush_after_x_refreshes, ban_wait, connection_timeout,
    \* Crawler fields and locals of start
    regexes, prev_checked_ids, new_checked_ids, pastes_for_save, verbose,
    count, status, pastes, idx, ban_i, user_choice,
    \* locals of check_paste / save_result / save_last_pastes
    paste_txt, sv, k,
    \* the world: regexes.txt, the site, the file system, the console, the clock
    regexes_file, content, budget, dirs, audit, files, notices, sleep_arg,
    \* history of the run
    cycle, lastSeen, sinceFlush, flushGap, calls, outcome, unrecorded,
    \* a second run on the same inputs with another display flag
    twin,
    \* time.sleep(delay) has run since the last fetch of a paste in this cycle
    rested,
    \* identifiers whose check_paste was cut short by an interrupt in this cycle
    unresolved

vars == << pc, exc, flush_after_x_refreshes, ban_wait, connection_timeout,
           regexes, prev_checked_ids, new_checked_ids, pastes_for_save, verbose,
           count, status, pastes, idx, ban_i, user_choice, paste_txt, sv, k,
           regexes_file, content, budget, dirs, audit, files, notices, sleep_arg,
           cycle, lastSeen, sinceFlush, flushGap, calls, outcome, unrecorded,
           twin, rested, unresolved >>

params == << flush_after_x_refreshes, ban_wait, connection_timeout,
            regexes_file, content, budget >>
config == << params, regexes >>
dedup == << prev_checked_ids, new_checked_ids, count >>
hist == << lastSeen, sinceFlush, flushGap >>
fs == << dirs, audit, files >>
banv == << ban_i, notices >>
locals == << paste_txt, sv, k, user_choice, calls, outcome >>

----------------------------------------------------------------------------
(* Bounds of the exploration *)

MaxCycles == 3         \* cycles with an OK listing per run
MaxListing == 2        \* identifiers in one archive listing
MaxFlush == 3          \* largest flush_after_x_refreshes
MaxBanWait == 2        \* largest ban_wait (minutes)
MaxLines == 2          \* lines an audit log can take before the disk is full

(* Program constants *)

OK == 1
ACCESS_DENIED == -1
CONNECTION_FAIL == -2
OTHER_ERROR == -3
PrefixWindow == 1024
BanSleepSeconds == 60
ErrorSleepSeconds == 1
DefaultConnectionTimeout == 60
DefaultRefreshTime == 30
DefaultDelay == 3

PASTES_DIR == "archive"
Timestamp == "T"

----------------------------------------------------------------------------
(* Numbers with their Python type *)

IntNum(n) == [kind |-> "int", tenths |-> 10 * n]
FloatNum(t) == [kind |-> "float", tenths |-> t]
NoSleep == [kind |-> "none", tenths |-> 0]

\* '{:d}'.format(x) raises ValueError unless x is an int
FormatD_Loose(x) == TRUE
FormatD(x) == x.kind = "int"

----------------------------------------------------------------------------
(* Text: identifiers, patterns and bodies *)

Min(a, b) == IF a < b THEN a ELSE b

Range(s) == { s[i] : i \in 1..Len(s) }

Pad(n) == [i \in 1..n |-> "x"]

\* re.IGNORECASE folds case before comparing
Lower(c) == CASE c = "A" -> "a" [] c = "B" -> "b" [] OTHER -> c

\* paste_txt[0:1024]
Prefix_Whole(txt) == txt
Prefix(txt) == SubSeq(txt, 1, Min(Len(txt), PrefixWindow))

\* re.search(regex, text, re.IGNORECASE) for a pattern of literal characters:
\* the pattern occurs somewhere in the text, case folded
Search_CaseSensitive(regex, text) ==
    \E i \in 0..(Len(text) - Len(regex)) :
        \A j \in 1..Len(regex) : text[i + j] = regex[j]
Search(regex, text) ==
    \E i \in 0..(Len(text) - Len(regex)) :
        \A j \in 1..Len(regex) : Lower(text[i + j]) = Lower(regex[j])

\* the rule loop of check_paste: index of the rule at which the loop returns,
\* 0 when it runs to its end, -1 when 'for regex, file, directory in
\* self.regexes' raises ValueError at a rule that is no triple
RECURSIVE FirstMatchFrom(_, _, _)
FirstMatchFrom(rules, txt, i) ==
    IF i > Len(rules) THEN 0
    ELSE IF Len(rules[i]) # 3 THEN -1
    ELSE IF Search(rules[i][1], Prefix(txt)) THEN i
    ELSE FirstMatchFrom(rules, txt, i + 1)

RECURSIVE LastMatchFrom(_, _, _)
LastMatchFrom(rules, txt, i) ==
    IF i < 1 THEN 0
    ELSE IF Search(rules[i][1], Prefix(txt)) THEN i
    ELSE LastMatchFrom(rules, txt, i - 1)

FirstMatch_Last(rules, txt) == LastMatchFrom(rules, txt, Len(rules))
FirstMatch(rules, txt) == FirstMatchFrom(rules, txt, 1)

\* paste_id.replace('/', '')
StripSlash(id) == SelectSeq(id, LAMBDA c : c # "/")

\* PASTEBIN_URL + '/raw' + paste_id
PasteUrl(id) == << "http://pastebin.com", "/raw", id >>

\* the inputs the exploration draws from
IdA == << "/", "a" >>
IdB == << "/", "b" >>
Ids == { IdA, IdB }

RuleAB == << << "a", "b" >>, "ab.txt", "dirAB" >>
RuleB == << << "b" >>, "b.txt", "dirB" >>
RuleSets == { << RuleAB, RuleB >>, << RuleB, RuleAB >>, << RuleAB >>, << >> }
DefaultRules == << RuleAB, RuleB >>

\* regexes.txt: whether open() and readlines() succeed, and its lines.  A line
\* is the list of its fields, line.split(',') with each field stripped, and is
\* blank (line.strip() == ''), a comment (line.startswith('#')) or a rule line.
RuleLine(fields) == [kind |-> "rule", fields |-> fields]
BlankLine == [kind |-> "blank", fields |-> << << >> >>]
CommentLine == [kind |-> "comment", fields |-> << << "#", "a" >> >>]
Unreadable == [readable |-> FALSE, lines |-> << >>]
FileOf(lines) == [readable |-> TRUE, lines |-> lines]

\* the file that holds one line 'pattern,label,category' per rule
RulesFile(rules) == FileOf([i \in 1..Len(rules) |-> RuleLine(rules[i])])

RuleFiles ==
    { RulesFile(DefaultRules),
      Unreadable,
      FileOf(<< CommentLine, RuleLine(RuleAB), BlankLine >>),
      FileOf(<< RuleLine(<< << "a" >>, << "b" >>, "ab.txt", "dirAB" >>) >>),
      FileOf(<< RuleLine(RuleAB), RuleLine(<< "b.txt", "dirB" >>) >>),
      FileOf(<< RuleLine(<< << "a" >> >>), RuleLine(RuleB) >>) }

BodyNames == { "both", "second", "none", "late", "straddle", "edge" }
BodyText(b) ==
    CASE b = "both" -> << "x", "A", "B" >>
      [] b = "second" -> << "B" >>
      [] b = "none" -> << "z", "a", "z" >>
      [] b = "late" -> Pad(PrefixWindow) \o << "a", "b" >>
      [] b = "straddle" -> Pad(PrefixWindow - 1) \o << "a", "b" >>
      [] b = "edge" -> Pad(PrefixWindow - 1) \o << "b", "a", "b" >>

SAVES_FILE == "saves.txt"
SAVES_DIR == "saves"
Labels == { "ab.txt", "b.txt", SAVES_FILE }

Listings == UNION { [1..n -> Ids] : n \in 0..MaxListing }

----------------------------------------------------------------------------
(* Initial states *)

NoSave == [caller |-> "", paste_url |-> << >>, paste_id |-> << >>,
           file |-> "", directory |-> "", txt |-> ""]

\* -c is type=float with the int default 60: a value given on the command
\* line, the default as an int.  ban_wait and connection_timeout are
\* explored together: an even ban_wait with the default timeout, an odd one
\* with -c 2.5.
WaitConfigs ==
    { << b, IF b % 2 = 0 THEN IntNum(DefaultConnectionTimeout) ELSE FloatNum(25) >> :
        b \in 0..MaxBanWait }

\* A second run of the program that is given the same listings, bodies, fetch
\* outcomes, rules and interrupts as this one and has its own self.verbose.
\* agrees: the two runs have so far taken the same branch at every check.
NoTwin == [on |-> FALSE, verbose |-> FALSE, agrees |-> TRUE]
Twins == { [on |-> TRUE, verbose |-> v, agrees |-> TRUE] : v \in BOOLEAN }

\* the state when the process starts: Crawler() has not read regexes.txt yet;
\* the parameters are the ones parse_input will hand to start
InitWith(rulefiles, site, n, m, flushes, waits, twins) ==
    /\ pc = "Loading"
    /\ exc = ""
    /\ flush_after_x_refreshes \in flushes
    /\ \E w \in waits : ban_wait = w[1] /\ connection_timeout = w[2]
    /\ regexes_file \in rulefiles
    /\ regexes = << >>
    /\ prev_checked_ids = {}
    /\ new_checked_ids = {}
    /\ pastes_for_save = << >>
    /\ verbose \in BOOLEAN
    /\ count = 0
    /\ status = OK
    /\ pastes = << >>
    /\ idx = 1
    /\ ban_i = 0
    /\ user_choice = "-"
    /\ paste_txt = ""
    /\ sv = NoSave
    /\ k = 0
    /\ content \in site
    /\ budget = [cycles |-> n, listing |-> m]
    /\ dirs = {}
    /\ audit = [f \in Labels |-> << >>]
    /\ files = {}
    /\ notices = << >>
    /\ sleep_arg = NoSleep
    /\ cycle = 0
    /\ lastSeen = [i \in Ids |-> 0]
    /\ sinceFlush = 0
    /\ flushGap = 0
    /\ calls = 0
    /\ outcome = ""
    /\ unrecorded = {}
    /\ twin \in twins
    /\ rested = TRUE
    /\ unresolved = {}

DefaultSite == [i \in Ids |-> IF i = IdA THEN "both" ELSE "none"]

Init ==
    InitWith({RulesFile(DefaultRules)}, {DefaultSite}, MaxCycles, MaxListing, 1..MaxFlush,
             WaitConfigs, { NoTwin })

----------------------------------------------------------------------------
(* The end of the process *)

\* The process ends at pc p with exception e: its memory is gone (every
\* variable of the program takes its initial value), the file system stays.
Exit(p, e) ==
    /\ pc' = p
    /\ exc' = e
    /\ flush_after_x_refreshes' = 1
    /\ ban_wait' = 0
    /\ connection_timeout' = IntNum(DefaultConnectionTimeout)
    /\ regexes' = << >>
    /\ regexes_file' = Unreadable
    /\ content' = DefaultSite
    /\ budget' = [cycles |-> 0, listing |-> 0]
    /\ prev_checked_ids' = {}
    /\ new_checked_ids' = {}
    /\ count' = 0
    /\ pastes_for_save' = << >>
    /\ verbose' = FALSE
    /\ status' = OK
    /\ pastes' = << >>
    /\ idx' = 1
    /\ ban_i' = 0
    /\ notices' = << >>
    /\ user_choice' = "-"
    /\ paste_txt' = ""
    /\ sv' = NoSave
    /\ k' = 0
    /\ sleep_arg' = NoSleep
    /\ cycle' = 0
    /\ lastSeen' = [i \in Ids |-> 0]
    /\ sinceFlush' = 0
    /\ flushGap' = 0
    /\ calls' = 0
    /\ outcome' = ""
    /\ unrecorded' = {}
    /\ twin' = NoTwin
    /\ rested' = TRUE
    /\ unresolved' = {}
    /\ UNCHANGED fs

----------------------------------------------------------------------------
(* Crawler.__init__: read_regexes *)

\* ','.join(parts)
RECURSIVE JoinComma(_)
JoinComma(parts) ==
    IF Len(parts) = 0 THEN << >>
    ELSE IF Len(parts) = 1 THEN parts[1]
    ELSE parts[1] \o << "," >> \o JoinComma(Tail(parts))

\* [','.join(fields[:-2])] + fields[-2:]
MergeFields(fields) ==
    << JoinComma(SubSeq(fields, 1, Len(fields) - 2)) >>
        \o SubSeq(fields, IF Len(fields) > 2 THEN Len(fields) - 1 ELSE 1, Len(fields))

\* if line.strip() != '' and not line.startswith('#')
Retained(lines) == SelectSeq(lines, LAMBDA line : line.kind = "rule")

\* the list comprehension and the merge loop of read_regexes: neither raises
\* for a line of one or two fields
RegexesOf(lines) ==
    [i \in 1..Len(Retained(lines)) |-> MergeFields(Retained(lines)[i].fields)]

\* Crawler(): read_regexes.  fatal_error logs and calls exit() when open() or
\* readlines() raised; otherwise start is entered with the rules read.
ReadRegexes ==
    /\ pc = "Loading"
    /\ IF regexes_file.readable
       THEN /\ regexes' = RegexesOf(regexes_file.lines)
            /\ pc' = "Polling"
            /\ UNCHANGED << exc, unrecorded, unresolved, twin, rested, params,
                            dedup, hist, fs, banv,
                            locals, verbose, pastes_for_save, status, pastes,
                            idx, sleep_arg, cycle >>
       ELSE Exit("Fatal", "SystemExit")

----------------------------------------------------------------------------
(* Crawler.start: the polling loop *)

Statuses == { OK, ACCESS_DENIED, CONNECTION_FAIL, OTHER_ERROR }

\* del self.pastes_for_save[:] after get_pastes returned, whatever the status
BufferAtPoll_Keep == pastes_for_save
BufferAtPoll == << >>

\* get_pastes and the branches of start for a status other than OK do not
\* assign prev_checked_ids
SeenAtPoll_Forget(st) == IF st = OK THEN prev_checked_ids ELSE {}
SeenAtPoll(st) == prev_checked_ids

\* while True: status, pastes = self.get_pastes(); del self.pastes_for_save[:]
\* and the dispatch on status
GetPastes ==
    /\ pc = "Polling"
    /\ cycle < budget.cycles
    /\ \E st \in Statuses, lst \in Listings :
        /\ Len(lst) <= budget.listing
        /\ (st # OK => lst = << >>)
        /\ status' = st
        /\ pastes' = lst
        /\ prev_checked_ids' = SeenAtPoll(st)
        /\ cycle' = IF st = OK THEN cycle + 1 ELSE cycle
        /\ pc' = CASE st = OK -> "For"
                   [] st = ACCESS_DENIED -> "BannedWait"
                   [] st = CONNECTION_FAIL -> "ConnectionWait"
                   [] st = OTHER_ERROR -> "ErrorWait"
    /\ pastes_for_save' = BufferAtPoll
    /\ idx' = 1
    /\ ban_i' = 0
    /\ notices' = << >>
    /\ sleep_arg' = NoSleep
    /\ unrecorded' = {}
    /\ rested' = TRUE
    /\ unresolved' = {}
    /\ UNCHANGED << exc, twin, config, new_checked_ids, count, hist, fs, locals,
                    verbose >>

\* for paste in pastes: the next element, entering the try block
ForNext ==
    /\ pc = "For"
    /\ idx <= Len(pastes)
    /\ pc' = "Record"
    /\ UNCHANGED << exc, unrecorded, unresolved, twin, rested, config, dedup,
                    hist, fs, locals, banv, verbose,
                    pastes_for_save, status, pastes, idx, sleep_arg, cycle >>

\* paste_id = PyQuery(paste).attr('href'); self.new_checked_ids.append(paste_id);
\* if paste_id not in self.prev_checked_ids: self.check_paste(paste_id) ...
IsNew_Window(id) == id \notin prev_checked_ids \cup new_checked_ids
IsNew(id) == id \notin prev_checked_ids

RecordId ==
    /\ pc = "Record"
    /\ new_checked_ids' = new_checked_ids \cup { pastes[idx] }
    /\ IF IsNew(pastes[idx])
       THEN pc' = "Fetch" /\ calls' = 0 /\ outcome' = ""
       ELSE pc' = "Count" /\ UNCHANGED << calls, outcome >>
    /\ UNCHANGED << exc, unrecorded, unresolved, twin, rested, config,
                    prev_checked_ids, count, hist, fs, banv, verbose,
                    pastes_for_save, status, pastes, idx, sleep_arg, cycle,
                    paste_txt, sv, k, user_choice >>

\* time.sleep(delay); count += 1 after check_paste returned
Delay ==
    /\ pc = "Delay"
    /\ sleep_arg' = IntNum(DefaultDelay)
    /\ count' = count + 1
    /\ idx' = idx + 1
    /\ outcome' = ""
    /\ paste_txt' = ""
    /\ calls' = 0
    /\ pc' = "For"
    /\ rested' = TRUE
    /\ UNCHANGED << exc, unrecorded, unresolved, twin, config,
                    prev_checked_ids, new_checked_ids, hist, fs,
                    banv, verbose, pastes_for_save, status, pastes, cycle,
                    sv, k, user_choice >>

\* count += 1 for an identifier that is in prev_checked_ids
CountSeen ==
    /\ pc = "Count"
    /\ count' = count + 1
    /\ idx' = idx + 1
    /\ pc' = "For"
    /\ UNCHANGED << exc, unrecorded, unresolved, twin, rested, config,
                    prev_checked_ids, new_checked_ids, hist, fs,
                    banv, verbose, pastes_for_save, status, pastes, cycle,
                    locals, sleep_arg >>

\* if count == flush_after_x_refreshes: ... else: ...; self.new_checked_ids = []
FlushDue_Never == FALSE
FlushDue == count = flush_after_x_refreshes

CommitSeen_Drop == IF FlushDue THEN new_checked_ids ELSE prev_checked_ids
CommitSeen ==
    IF FlushDue THEN new_checked_ids ELSE prev_checked_ids \cup new_checked_ids

CommitWindow_Keep == new_checked_ids
CommitWindow == {}

\* the end of the for loop of a cycle whose listing was OK
Commit ==
    /\ pc = "For"
    /\ idx > Len(pastes)
    /\ prev_checked_ids' = CommitSeen
    /\ count' = IF FlushDue THEN 0 ELSE count
    /\ new_checked_ids' = CommitWindow
    /\ lastSeen' = [i \in Ids |-> IF i \in new_checked_ids THEN cycle ELSE lastSeen[i]]
    /\ sinceFlush' = IF FlushDue THEN 0 ELSE sinceFlush + 1
    /\ flushGap' = IF FlushDue THEN sinceFlush + 1 ELSE flushGap
    /\ pastes' = << >>
    /\ idx' = 1
    /\ pc' = "Sleeping"
    /\ unrecorded' = {}
    /\ unresolved' = {}
    /\ UNCHANGED << exc, twin, rested, config, fs, banv, locals, verbose,
                    pastes_for_save,
                    status, sleep_arg, cycle >>

\* sleep_time = ceil(max(0, refresh_time - elapsed_time)); sleep if positive
SleepRefresh ==
    /\ pc = "Sleeping"
    /\ \E late \in BOOLEAN :
        sleep_arg' = IF late THEN NoSleep ELSE IntNum(DefaultRefreshTime)
    /\ pc' = "Polling"
    /\ UNCHANGED << exc, unrecorded, unresolved, twin, rested, config, dedup,
                    hist, fs, banv, locals, verbose,
                    pastes_for_save, status, pastes, idx, cycle >>

\* for i in range(0, ban_wait): log 'Please wait <ban_wait - i> minute(s)'; sleep(60)
BanNoticeValue_Up == ban_i + 1
BanNoticeValue == ban_wait - ban_i

BanNotice ==
    /\ pc = "BannedWait"
    /\ ban_i < ban_wait
    /\ notices' = Append(notices, BanNoticeValue)
    /\ sleep_arg' = IntNum(BanSleepSeconds)
    /\ ban_i' = ban_i + 1
    /\ UNCHANGED << pc, exc, unrecorded, unresolved, twin, rested, config,
                    dedup, hist, fs, locals, verbose,
                    pastes_for_save, status, pastes, idx, cycle >>

\* the range is exhausted: back to while True
BanDone ==
    /\ pc = "BannedWait"
    /\ ban_i >= ban_wait
    /\ pc' = "Polling"
    /\ ban_i' = 0
    /\ notices' = << >>
    /\ UNCHANGED << exc, unrecorded, unresolved, twin, rested, config, dedup,
                    hist, fs, locals, verbose,
                    pastes_for_save, status, pastes, idx, sleep_arg, cycle >>

\* elif status == self.CONNECTION_FAIL: log('... {:d} ...'.format(connection_timeout));
\* time.sleep(connection_timeout)
ConnectionSleep_Fixed == IntNum(ErrorSleepSeconds)
ConnectionSleep == connection_timeout

ConnectionWait ==
    /\ pc = "ConnectionWait"
    /\ IF FormatD(connection_timeout)
       THEN /\ sleep_arg' = ConnectionSleep
            /\ pc' = "Polling"
            /\ UNCHANGED << exc, unrecorded, unresolved, twin, rested, config,
                            dedup, hist, fs, banv, locals, verbose,
                            pastes_for_save, status, pastes, idx, cycle >>
       ELSE Exit("Crashed", "ValueError")

\* elif status == self.OTHER_ERROR: log('... {:d} ...'.format(connection_timeout));
\* time.sleep(1)
ErrorSleep_Timeout == connection_timeout
ErrorSleep == IntNum(ErrorSleepSeconds)

ErrorWait ==
    /\ pc = "ErrorWait"
    /\ IF FormatD(connection_timeout)
       THEN /\ sleep_arg' = ErrorSleep
            /\ pc' = "Polling"
            /\ UNCHANGED << exc, unrecorded, unresolved, twin, rested, config,
                            dedup, hist, fs, banv, locals, verbose,
                            pastes_for_save, status, pastes, idx, cycle >>
       ELSE Exit("Crashed", "ValueError")

----------------------------------------------------------------------------
(* Crawler.check_paste *)

\* requests.get(paste_url) ... the rule loop ... up to the call of save_result
\* or to the return.  Any exception but KeyboardInterrupt is logged as
\* 'Error reading paste' and check_paste returns False.
\* if not self.verbose: self.show_paste(paste_txt), inside the try block: the
\* check goes on to the rule loop when the call is skipped or returns
\* (printing a text that the console encoding cannot encode raises)
ShowPaste(silent, shown) == silent \/ shown

\* the second run takes the other branch when only one of the two calls
\* show_paste and the call raises
TwinAfterCheck(read, read2) ==
    IF twin.on /\ read # read2 THEN [twin EXCEPT !.agrees = FALSE] ELSE twin

\* if user_choice in 'vV': the second run, interrupted at the same place, may
\* toggle where this one answers another key, and the other way round
TwinAfterPrompt(c) ==
    IF twin.on /\ c \in { "v", "x" }
    THEN { [twin EXCEPT !.verbose = v] : v \in BOOLEAN }
    ELSE { twin }

FetchPaste ==
    /\ pc = "Fetch"
    /\ sleep_arg' = NoSleep
    /\ \E fetched \in BOOLEAN, shown \in BOOLEAN :
        LET id == pastes[idx]
            txt == content[id]
            m == FirstMatch(regexes, BodyText(txt))
            read == fetched /\ ShowPaste(verbose, shown)
            read2 == fetched /\ ShowPaste(twin.verbose, shown)
        IN  /\ twin' = TwinAfterCheck(read, read2)
            /\ IF ~read \/ m < 0
               THEN /\ outcome' = "error"
                    /\ pc' = "Delay"
                    /\ UNCHANGED << paste_txt, sv, pastes_for_save, calls >>
               ELSE /\ paste_txt' = txt
                    /\ IF m > 0
                       THEN /\ sv' = [caller |-> "check",
                                      paste_url |-> PasteUrl(id),
                                      paste_id |-> id,
                                      file |-> regexes[m][2],
                                      directory |-> regexes[m][3],
                                      txt |-> txt]
                            /\ calls' = calls + 1
                            /\ pc' = "SaveMkdir"
                            /\ UNCHANGED << pastes_for_save, outcome >>
                       ELSE /\ pastes_for_save' = Append(pastes_for_save, << id, txt >>)
                            /\ outcome' = "unmatched"
                            /\ pc' = "Delay"
                            /\ UNCHANGED << sv, calls >>
    /\ rested' = FALSE
    /\ unresolved' = IF pc' = "Delay" THEN unresolved \ { pastes[idx] } ELSE unresolved
    /\ UNCHANGED << exc, unrecorded, config, dedup, hist, fs, banv, verbose,
                    status, pastes,
                    idx, cycle, k, user_choice >>

----------------------------------------------------------------------------
(* Crawler.save_result, called by check_paste and by save_last_pastes *)

InSave == pc \in { "SaveMkdir", "SaveLog", "SaveFile" }

DirPath(directory) == << PASTES_DIR, directory >>

\* directory + '/' + timestamp... + '_' + paste_id.replace('/', '') + '.txt'
SavePaste(directory, id) == << PASTES_DIR, directory, Timestamp, StripSlash(id) >>

\* timestamp + ' - ' + paste_url
AuditLine(url) == << Timestamp, url >>

\* try: os.makedirs(directory) except BaseException: pass
\* (the directory exists afterwards, made now or earlier; a failure of another
\* kind shows as the failure of the write that follows)
SaveMkdir ==
    /\ pc = "SaveMkdir"
    /\ dirs' = dirs \cup { DirPath(sv.directory) }
    /\ pc' = "SaveLog"
    /\ UNCHANGED << exc, unrecorded, unresolved, twin, rested, config, dedup,
                    hist, audit, files, banv, locals, verbose,
                    pastes_for_save, status, pastes, idx, sleep_arg, cycle >>

\* an exception leaves save_result: check_paste catches it, logs and returns
\* False; nothing catches it under save_last_pastes, and the process dies
SaveRaises ==
    IF sv.caller = "check"
    THEN /\ pc' = "Delay"
         /\ outcome' = "error"
         /\ sv' = NoSave
         /\ unresolved' = unresolved \ { pastes[idx] }
         /\ UNCHANGED << exc, unrecorded, twin, rested, config, dedup, hist,
                         fs, banv, verbose,
                         pastes_for_save, status, pastes, idx, sleep_arg, cycle,
                         paste_txt, k, user_choice, calls >>
    ELSE Exit("Crashed", "OSError")

AuditAfter_Truncating(file, line) == [audit EXCEPT ![file] = << line >>]
AuditAfter(file, line) == [audit EXCEPT ![file] = Append(@, line)]

\* with open(file, 'a') as matching: matching.write(timestamp + ' - ' + paste_url + '\n')
SaveLog ==
    /\ pc = "SaveLog"
    /\ \E written \in BOOLEAN :
        IF written /\ Len(audit[sv.file]) < MaxLines
        THEN /\ audit' = AuditAfter(sv.file, AuditLine(sv.paste_url))
             /\ pc' = "SaveFile"
             /\ UNCHANGED << exc, unrecorded, unresolved, twin, rested, config,
                             dedup, hist, dirs, files, banv, locals,
                             verbose, pastes_for_save, status, pastes, idx,
                             sleep_arg, cycle >>
        ELSE SaveRaises

FilesAfter(name, body) ==
    { f \in files : f.name # name } \cup { [name |-> name, body |-> body] }

\* with open(save_paste, mode='w') as paste: paste.write(paste_txt + '\n');
\* then save_result returns: check_paste returns True, save_last_pastes goes on
SaveFile ==
    /\ pc = "SaveFile"
    /\ \E written \in BOOLEAN :
        IF written
        THEN /\ files' = FilesAfter(SavePaste(sv.directory, sv.paste_id), sv.txt)
             /\ sv' = NoSave
             /\ IF sv.caller = "check"
                THEN pc' = "Delay" /\ outcome' = "persisted" /\ k' = k
                ELSE pc' = "SaveLast" /\ outcome' = outcome /\ k' = k + 1
             /\ unresolved' = IF sv.caller = "check" THEN unresolved \ { pastes[idx] }
                               ELSE unresolved
             /\ UNCHANGED << exc, unrecorded, twin, rested, config, dedup,
                             hist, dirs, audit, banv, verbose,
                             pastes_for_save, status, pastes, idx, sleep_arg,
                             cycle, paste_txt, user_choice, calls >>
        ELSE SaveRaises

----------------------------------------------------------------------------
(* The operator interrupt: KeyboardInterrupt and the prompt of start *)

\* the positions inside the try block of the for loop of start
InTry ==
    \/ pc \in { "Record", "Fetch", "Delay", "Count" }
    \/ InSave /\ sv.caller = "check"

Running == pc \notin { "Stopped", "Crashed", "Fatal" }

\* SIGINT raises KeyboardInterrupt where the main thread is.  Inside the try
\* block of the for loop the handler of start catches it and prompts;
\* anywhere else (get_pastes re-raises it) it reaches the handler at module
\* level, which says goodbye and ends the process.
CaughtByPrompt_Always == TRUE
CaughtByPrompt == InTry

KeyboardInterrupt ==
    /\ Running
    /\ IF CaughtByPrompt
       THEN /\ pc' = "Interrupted"
            /\ sv' = NoSave
            /\ paste_txt' = ""
            /\ outcome' = IF pc \in { "Fetch", "SaveMkdir", "SaveLog", "SaveFile" }
                          THEN "interrupted" ELSE outcome
            /\ unrecorded' = IF pc = "Record" THEN unrecorded \cup { pastes[idx] }
                              ELSE unrecorded
            /\ unresolved' = IF pc \in { "Fetch", "SaveMkdir", "SaveLog", "SaveFile" }
                              THEN unresolved \cup { pastes[idx] }
                              ELSE unresolved
            /\ UNCHANGED << exc, twin, rested, config, dedup, hist, fs, banv, verbose,
                            pastes_for_save, status, pastes, idx, sleep_arg,
                            cycle, k, user_choice, calls >>
       ELSE Exit("Stopped", "KeyboardInterrupt")

\* user_choice in 'sS': a substring test, true of the empty string that
\* get_char returns at end of input
Choices == { "s", "v", "q", "x", "" }
InStr(c, letter) == c = "" \/ c = letter

\* if user_choice in 'vV': toggle; if user_choice in 'qQ': raise; otherwise the
\* for loop goes on with the next element
AfterSave(c, buffer) ==
    IF InStr(c, "q")
    THEN Exit("Stopped", "KeyboardInterrupt")
    ELSE /\ verbose' = IF InStr(c, "v") THEN ~verbose ELSE verbose
         /\ pc' = "For"
         /\ idx' = idx + 1
         /\ pastes_for_save' = buffer
         /\ user_choice' = "-"
         /\ k' = 0
         /\ outcome' = ""
         /\ calls' = 0
         /\ twin' \in TwinAfterPrompt(c)
         /\ UNCHANGED << exc, unrecorded, unresolved, rested, config, dedup,
                         hist, fs, banv, status, pastes,
                         sleep_arg, cycle, paste_txt, sv >>

\* the prompt and user_choice = get_char()
AnswerPrompt ==
    /\ pc = "Interrupted"
    /\ \E c \in Choices :
        IF InStr(c, "s")
        THEN /\ user_choice' = c
             /\ pc' = "SaveLast"
             /\ k' = 1
             /\ outcome' = ""
             /\ UNCHANGED << exc, unrecorded, unresolved, twin, rested, config,
                             dedup, hist, fs, banv, verbose,
                             pastes_for_save, status, pastes, idx, sleep_arg,
                             cycle, paste_txt, sv, calls >>
        ELSE AfterSave(c, pastes_for_save)

\* save_last_pastes: for i in self.pastes_for_save: save_result('', id, 'saves.txt',
\* 'saves', txt)
SaveLastNext ==
    /\ pc = "SaveLast"
    /\ k <= Len(pastes_for_save)
    /\ sv' = [caller |-> "saves",
              paste_url |-> << >>,
              paste_id |-> pastes_for_save[k][1],
              file |-> SAVES_FILE,
              directory |-> SAVES_DIR,
              txt |-> pastes_for_save[k][2]]
    /\ pc' = "SaveMkdir"
    /\ UNCHANGED << exc, unrecorded, unresolved, twin, rested, config, dedup,
                    hist, fs, banv, verbose, pastes_for_save,
                    status, pastes, idx, sleep_arg, cycle, paste_txt, k,
                    user_choice, calls, outcome >>

\* del self.pastes_for_save[:] and the rest of the handler
SaveLastDone_Keep ==
    /\ pc = "SaveLast"
    /\ k > Len(pastes_for_save)
    /\ AfterSave(user_choice, pastes_for_save)

SaveLastDone ==
    /\ pc = "SaveLast"
    /\ k > Len(pastes_for_save)
    /\ AfterSave(user_choice, << >>)

----------------------------------------------------------------------------
(* The program *)

Next ==
    \/ ReadRegexes
    \/ GetPastes
    \/ ForNext
    \/ RecordId
    \/ FetchPaste
    \/ SaveMkdir
    \/ SaveLog
    \/ SaveFile
    \/ Delay
    \/ CountSeen
    \/ Commit
    \/ SleepRefresh
    \/ BanNotice
    \/ BanDone
    \/ ConnectionWait
    \/ ErrorWait
    \/ KeyboardInterrupt
    \/ AnswerPrompt
    \/ SaveLastNext
    \/ SaveLastDone

Spec == Init /\ [][Next]_vars

\* Shorter runs of the same program, one cycle and one listed identifier
\* less than Spec allows, with the default timeout: for the claims about the
\* seen set and about the operator interrupt
InitShort ==
    InitWith({RulesFile(DefaultRules)}, {DefaultSite}, MaxCycles - 1, MaxListing - 1,
             1..MaxFlush, { << 1, IntNum(DefaultConnectionTimeout) >> }, { NoTwin })

SpecShort == InitShort /\ [][Next]_vars

\* The same short runs over every ban_wait, for the claims about the waits
InitBan ==
    InitWith({RulesFile(DefaultRules)}, {DefaultSite}, MaxCycles - 1, MaxListing - 1,
             { 1 }, WaitConfigs, { NoTwin })

SpecBan == InitBan /\ [][Next]_vars

\* Runs of two cycles (the fewest in which an identifier is met again) over
\* every rule set and every body of the paste /a, for the claims about the
\* rule loop of check_paste
ClassifySites == { [i \in Ids |-> IF i = IdA THEN b ELSE "none"] : b \in BodyNames }

InitClassify ==
    InitWith({ RulesFile(r) : r \in RuleSets }, ClassifySites, 2, MaxListing - 1, { 1 },
             { << 1, IntNum(DefaultConnectionTimeout) >> }, { NoTwin })

SpecClassify == InitClassify /\ [][Next]_vars

\* Runs of two cycles over listings of full length, for the claims about the
\* buffer of unmatched pastes
InitBuffer ==
    InitWith({RulesFile(DefaultRules)}, {DefaultSite}, 2, MaxListing, { 1 },
             { << 1, IntNum(DefaultConnectionTimeout) >> }, { NoTwin })

SpecBuffer == InitBuffer /\ [][Next]_vars

\* Two runs side by side: the second starts with either display flag.
InitTwin ==
    InitWith({RulesFile(DefaultRules)}, {DefaultSite}, 2, MaxListing - 1, { 1 },
             { << 1, IntNum(DefaultConnectionTimeout) >> }, Twins)

SpecTwin == InitTwin /\ [][Next]_vars

\* Runs over well-formed, short-lined and unreadable rule files.
InitRules ==
    InitWith(RuleFiles, {DefaultSite}, 2, MaxListing - 1, { 1 },
             { << 1, IntNum(DefaultConnectionTimeout) >> }, { NoTwin })

SpecRules == InitRules /\ [][Next]_vars

\* Runs of two cycles over the default site and over a site whose two pastes
\* match the same rule, for the claims about the audit log of a label
BothSite == [i \in Ids |-> "both"]

InitAudit ==
    InitWith({RulesFile(DefaultRules)}, {BothSite, DefaultSite}, 2,
             MaxListing - 1, { 1 },
             { << 1, IntNum(DefaultConnectionTimeout) >> }, { NoTwin })

SpecAudit == InitAudit /\ [][Next]_vars

----------------------------------------------------------------------------
(* Properties *)

F == flush_after_x_refreshes

\* the step that ends the for loop of a cycle whose listing was OK
AtCommit == pc = "For" /\ idx > Len(pastes)

\* C1: an identifier recorded as seen in successful cycle N is reported
\* not-new (is not fetched) in each of the successful cycles N+1 .. N+F-1.
\* At "Fetch" the identifier pastes[idx] has just been found new in cycle
\* `cycle`; lastSeen gives the last earlier cycle whose window held it.
C1_RetainedForFlushHorizon ==
    pc = "Fetch" =>
        ~ ( /\ lastSeen[pastes[idx]] > 0
            /\ cycle <= lastSeen[pastes[idx]] + F - 1 )

\* C2: the flush counter counts refresh cycles: the seen set is replaced by
\* the latest window at the end of every F-th successful cycle since the
\* previous flush (or the start), so a flush never covers more or fewer than F
\* cycles, whatever the listings hold.
C2_FlushEveryFthCycle ==
    /\ sinceFlush < F
    /\ flushGap \in { 0, F }

\* C3 as claimed: at the end of every successful cycle the seen set becomes
\* exactly the identifiers listed in that cycle with the counter reset to 0
\* (flush), or its previous value united with the identifiers listed in that
\* cycle; the window accumulator is then empty.
C3_SeenFromListing ==
    [][ AtCommit /\ pc' = "Sleeping" =>
          /\ \/ prev_checked_ids' = Range(pastes) /\ count' = 0
             \/ prev_checked_ids' = prev_checked_ids \cup Range(pastes)
          /\ new_checked_ids' = {} ]_vars

\* C3 amended: the same with the cycle's window in place of its listing: the
\* window holds the listed identifiers, less only those at which an operator
\* interrupt arrived before the identifier was recorded; the flush is the
\* case count = F; the accumulator is empty whenever a cycle starts.
C3_SeenFromWindow ==
    /\ [](pc = "Polling" => new_checked_ids = {})
    /\ [][ AtCommit /\ pc' = "Sleeping" =>
             /\ new_checked_ids \subseteq Range(pastes)
             /\ Range(pastes) \ unrecorded \subseteq new_checked_ids
             /\ count = F =>
                  prev_checked_ids' = new_checked_ids /\ count' = 0
             /\ count # F =>
                  /\ prev_checked_ids' = prev_checked_ids \cup new_checked_ids
                  /\ count' = count
             /\ new_checked_ids' = {} ]_vars

\* C3 witness: a flush has just replaced a seen set that held an identifier
\* the last window does not hold
C3_Witness ==
    /\ pc = "Sleeping"
    /\ cycle >= 2
    /\ sinceFlush = 0
    /\ flushGap > 0
    /\ prev_checked_ids = { IdB }
    /\ lastSeen[IdA] > 0

\* what the claim calls a match: the pattern occurs, letter case aside,
\* wholly within the first 1024 characters of the body
SameLetter(c, d) == c = d \/ { c, d } = { "a", "A" } \/ { c, d } = { "b", "B" }

MatchesInWindow(pattern, body) ==
    \E start \in 1..(Min(Len(body), PrefixWindow) - Len(pattern) + 1) :
        \A j \in 1..Len(pattern) : SameLetter(body[start + j - 1], pattern[j])

\* the first rule, in the order of R, that matches B; 0 when none does
WinningRule(R, B) ==
    IF \E i \in 1..Len(R) : MatchesInWindow(R[i][1], B)
    THEN CHOOSE i \in 1..Len(R) :
            /\ MatchesInWindow(R[i][1], B)
            /\ \A j \in 1..(i - 1) : ~MatchesInWindow(R[j][1], B)
    ELSE 0

PersistOfCheck(w) ==
    [caller |-> "check",
     paste_url |-> PasteUrl(pastes[idx]),
     paste_id |-> pastes[idx],
     file |-> regexes[w][2],
     directory |-> regexes[w][3],
     txt |-> paste_txt]

WaitStates == { "Sleeping", "BannedWait", "ConnectionWait", "ErrorWait" }

\* C5: the loop never stops on errors.  After every poll outcome and for
\* every configuration the command line accepts, a wait is left only for
\* Polling (or by the operator, for Stopped): no step out of Sleeping,
\* BannedWait, ConnectionWait or ErrorWait ends the process with an error.
C5_WaitsReturnToPolling ==
    [][ (pc \in WaitStates) => pc' \in { pc, "Polling", "Stopped" } ]_vars

\* C6 as claimed: an operator interrupt in Polling, Sleeping, BannedWait,
\* ConnectionWait or ErrorWait leads to Interrupted (the prompt), and Stopped
\* is entered only from the prompt.
C6_InterruptAlwaysPrompts ==
    [][ /\ pc \in WaitStates \cup { "Polling" } /\ KeyboardInterrupt
             => pc' = "Interrupted"
        /\ pc' = "Stopped" /\ pc # "Stopped"
             => pc \in { "Interrupted", "SaveLast" } ]_vars

\* C6 amended: an operator interrupt leads to Interrupted exactly when it
\* arrives while an identifier of the listing is being processed (recorded,
\* fetched, classified, persisted on a match, delayed or counted); in every
\* other state (Polling and the archive request, the loop header and the
\* commit, Sleeping, BannedWait, ConnectionWait, ErrorWait, the prompt itself
\* and a save ordered at the prompt) it ends the process in Stopped without a
\* prompt.  Interrupted is entered by no other step, and Stopped only by such
\* an interrupt or by a quit answer.
C6_InterruptPromptsWhileProcessing ==
    [][ LET processing ==
                \/ pc \in { "Record", "Fetch", "Delay", "Count" }
                \/ /\ pc \in { "SaveMkdir", "SaveLog", "SaveFile" }
                   /\ sv.caller = "check"
        IN  /\ KeyboardInterrupt /\ processing =>
                 pc' = "Interrupted" /\ UNCHANGED << fs, dedup, pastes, idx >>
            /\ KeyboardInterrupt /\ ~processing =>
                 pc' = "Stopped" /\ UNCHANGED fs
            /\ pc' = "Interrupted" /\ pc # "Interrupted" => processing
            /\ pc' = "Stopped" /\ pc # "Stopped" =>
                 /\ exc' = "KeyboardInterrupt"
                 /\ \/ KeyboardInterrupt /\ ~processing
                    \/ pc \in { "Interrupted", "SaveLast" } ]_vars

\* C6 witness: the prompt is shown for an interrupt that arrived during the
\* fetch or the persist of a listed identifier
C6_Witness ==
    /\ pc = "Interrupted"
    /\ outcome = "interrupted"
    /\ idx <= Len(pastes)
    /\ pastes[idx] \in new_checked_ids

CycleStates ==
    { "For", "Record", "Fetch", "Delay", "Count", "SaveMkdir", "SaveLog",
      "SaveFile", "Interrupted", "SaveLast" }

\* C7: the cycle status is decided by the listing alone.  Once the listing is
\* obtained with status OK, whatever happens to an identifier (a failed fetch,
\* an interrupt answered otherwise than by quit) the loop stays in the cycle,
\* moving through the listing in order one identifier at a time, until it
\* commits and enters Sleeping; it leaves the cycle otherwise only when the
\* operator stops it, and never for BannedWait, ConnectionWait or ErrorWait.
C7_ListingAloneDecidesStatus ==
    [][ (pc \in CycleStates) =>
          \/ pc' \in CycleStates /\ pastes' = pastes /\ idx' \in { idx, idx + 1 }
          \/ pc' = "Sleeping" /\ idx > Len(pastes)
          \/ pc' = "Stopped" ]_vars

\* C8 as claimed: every identifier of the listing of a successful cycle is in
\* the seen set when the cycle has committed.
C8_ListedIsSeenNext ==
    [][ AtCommit /\ pc' = "Sleeping" =>
          Range(pastes) \subseteq prev_checked_ids' ]_vars

\* C8 amended: every identifier recorded in a successful cycle, that is every
\* identifier of the listing except one whose iteration was interrupted before
\* it was recorded, is in the seen set when the cycle has committed, whatever
\* the outcome of its processing; the seen set is kept until the next cycle
\* begins, and an identifier recorded in one successful cycle is not fetched
\* in the next.
C8_RecordedIsSeenNext ==
    /\ [] ( pc = "Fetch" =>
              \/ lastSeen[pastes[idx]] = 0
              \/ lastSeen[pastes[idx]] < cycle - 1 )
    /\ [][ AtCommit /\ pc' = "Sleeping" =>
             /\ Range(pastes) \ unrecorded \subseteq new_checked_ids
             /\ new_checked_ids \subseteq prev_checked_ids' ]_vars
    /\ [][ (pc \in WaitStates \cup { "Polling" }) /\ pc' \notin { "Stopped", "Crashed" } =>
             prev_checked_ids' = prev_checked_ids ]_vars

\* C8 witness: an identifier recorded in the previous successful cycle is
\* listed again and skipped, while the other identifier was seen longer ago
C8_Witness ==
    /\ pc = "Count"
    /\ cycle >= 2
    /\ lastSeen[pastes[idx]] = cycle - 1
    /\ pastes[idx] \in prev_checked_ids

\* C9: ban backoff.  After a listing denied with ban_wait = n, the notices
\* emitted so far are n, n-1, ... in that order, each followed by one sleep of
\* 60 seconds; while waiting no archive request and no content fetch is made
\* and nothing is stored; the loop returns to Polling only when exactly n
\* notices have been emitted.
C9_BanBackoff ==
    /\ [] ( pc = "BannedWait" =>
              /\ status = ACCESS_DENIED
              /\ ban_i \in 0..ban_wait
              /\ notices = [i \in 1..ban_i |-> ban_wait - i + 1]
              /\ sleep_arg = IF ban_i = 0 THEN NoSleep ELSE IntNum(60) )
    /\ [][ pc = "BannedWait" =>
             /\ pc' \in { "BannedWait", "Polling", "Stopped" }
             /\ pc' = "BannedWait" =>
                  /\ Len(notices') = Len(notices) + 1
                  /\ sleep_arg' = IntNum(60)
             /\ pc' = "Polling" => Len(notices) = ban_wait
             /\ pc' # "Stopped" => UNCHANGED << cycle, dedup, fs,
                                                pastes_for_save >> ]_vars

\* C9 witness: with ban_wait = 2 both notices, 2 then 1, have been emitted
C9_Witness ==
    /\ pc = "BannedWait"
    /\ ban_wait = 2
    /\ notices = << 2, 1 >>
    /\ sleep_arg = IntNum(60)

\* C10: backoff selection for failed listings.  Unless the operator stops the
\* process, ConnectionWait is left for Polling after one sleep of
\* connection_timeout seconds and ErrorWait is left for Polling after one
\* sleep of 1 second, whatever connection_timeout is.
C10_BackoffByStatus ==
    [][ /\ pc = "ConnectionWait" /\ pc' # "Stopped" =>
             pc' = "Polling" /\ sleep_arg' = connection_timeout
        /\ pc = "ErrorWait" /\ pc' # "Stopped" =>
             pc' = "Polling" /\ sleep_arg' = IntNum(1) ]_vars

\* the paste of identifier id matches no rule (in the sense of C4)
Unmatched(id) == WinningRule(regexes, BodyText(content[id])) = 0

\* the identifiers of buf, in order, are met in that order in the listing up
\* to position n
InListingOrder(buf, n) ==
    \E f \in [1..Len(buf) -> 1..n] :
        /\ \A j \in 1..Len(buf) : pastes[f[j]] = buf[j][1]
        /\ \A i, j \in 1..Len(buf) : i < j => f[i] < f[j]

InOperatorSave == pc = "SaveLast" \/ (InSave /\ sv.caller = "saves")

C13_PersistCompletesBeforeInterrupt ==
    [][ pc = "SaveFile" => pc' \notin { "Interrupted", "Stopped" } ]_vars

\* C14: a persistence write failure never crashes the loop.  Whether
\* save_result was called for a matched paste or by an operator save, no step
\* taken inside it ends the process with an error: the loop goes on to the
\* next identifier (or the operator stops it).
C14_WriteFailureContained ==
    [][ InSave => pc' \in { "SaveMkdir", "SaveLog", "SaveFile", "SaveLast",
                            "Delay", "Interrupted", "Stopped" } ]_vars

\* C15: the display flag does not interfere with matching or persistence.  Two
\* runs that get the same listings, bodies, fetch outcomes, rules and
\* interrupts and differ only in self.verbose take the same branch at every
\* check of a paste, so that their persisted pastes, audit lines, buffers and
\* seen sets are the same at every step.
C15_DisplayFlagNoninterference == twin.on => twin.agrees

\* C16: inter-fetch delay.  Within a cycle a content fetch is never issued
\* directly after the previous one: whenever check_paste fetches a paste, no
\* paste was fetched earlier in the cycle or time.sleep(delay) has run since
\* the last such fetch, also when that fetch failed or the processing of that
\* identifier was interrupted by the operator.
C16_DelayBetweenFetches ==
    [][ (pc = "Fetch" /\ pc' \in { "Delay", "SaveMkdir" }) => rested ]_vars

\* C17: rule loading fails fatally unless regexes.txt is readable and each of
\* its retained lines has at least three comma-separated fields.  Whenever the
\* crawler has got past the loading of its rules and runs, the file was
\* readable, no retained line has fewer than three fields, and every rule
\* held is a (pattern, label, category) triple.
C17_RuleLoading ==
    (pc # "Loading" /\ Running) =>
        /\ regexes_file.readable
        /\ \A i \in 1..Len(Retained(regexes_file.lines)) :
              Len(Retained(regexes_file.lines)[i].fields) >= 3
        /\ \A i \in 1..Len(regexes) : Len(regexes[i]) = 3

\* a step in which save_result returns to its caller
PersistDone ==
    /\ pc = "SaveFile"
    /\ \/ pc' = "Delay" /\ outcome' = "persisted"
       \/ pc' = "SaveLast"

\* C18: the audit log is append-only.  No step removes or changes a line of an
\* audit log; a log changes only by the write of save_result, which appends
\* the one line of the paste being persisted to the log of its label and
\* touches no other log; a persist that succeeds has appended exactly that
\* line, which is the last of the log when save_result returns, so that k
\* successful persists for a label leave their k lines in call order; and a
\* category directory that exists already is not an error: save_result goes
\* on to its writes and the directories are as before.
C18_AuditAppendOnly ==
    [][ /\ \A f \in Labels :
              \/ audit'[f] = audit[f]
              \/ /\ Len(audit'[f]) = Len(audit[f]) + 1
                 /\ SubSeq(audit'[f], 1, Len(audit[f])) = audit[f]
        /\ audit' # audit => pc = "SaveLog" /\ pc' = "SaveFile"
        /\ (pc = "SaveLog" /\ pc' = "SaveFile") =>
              /\ audit'[sv.file] = Append(audit[sv.file], AuditLine(sv.paste_url))
              /\ \A f \in Labels \ { sv.file } : audit'[f] = audit[f]
        /\ PersistDone =>
              /\ audit' = audit
              /\ Len(audit[sv.file]) > 0
              /\ audit[sv.file][Len(audit[sv.file])] = AuditLine(sv.paste_url)
        /\ (pc = "SaveMkdir" /\ DirPath(sv.directory) \in dirs) =>
              /\ pc' \in { "SaveLog", "Interrupted", "Stopped" }
              /\ dirs' = dirs
        /\ dirs \subseteq dirs'
      ]_vars

\* C18 witness: /a was persisted in the first cycle and /b in the second, both
\* under the label ab.txt, whose directory existed at the second persist; the
\* log holds the two lines in call order
C18_Witness ==
    /\ pc = "Delay"
    /\ outcome = "persisted"
    /\ cycle = 2
    /\ pastes = << IdB >>
    /\ audit["ab.txt"] = << AuditLine(PasteUrl(IdA)), AuditLine(PasteUrl(IdB)) >>
    /\ dirs = { DirPath("dirAB") }
    /\ Cardinality(files) = 2

\* the positions of a cycle whose listing status is not OK
FailedStates == { "BannedWait", "ConnectionWait", "ErrorWait" }

\* C19: a failed cycle changes no dedup state.  The poll that returns
\* ACCESS_DENIED, CONNECTION_FAIL or OTHER_ERROR and every step of the wait
\* that follows leave prev_checked_ids, new_checked_ids and count as they were,
\* write nothing to the file system and lead to no fetch of a paste; the poll
\* empties pastes_for_save, and nothing else of the crawler's state (the
\* rules, the display flag) changes until the next poll.  (A step that ends
\* the process is only required to write nothing.)
C19_FailedCycleFrame ==
    [][ /\ (pc = "Polling" /\ pc' \in FailedStates) =>
              /\ status' # OK
              /\ dedup' = dedup
              /\ fs' = fs
              /\ pastes_for_save' = << >>
              /\ regexes' = regexes /\ verbose' = verbose
        /\ (pc \in FailedStates) =>
              /\ fs' = fs
              /\ pc' \in FailedStates \cup { "Polling", "Stopped", "Crashed" }
              /\ Running' =>
                    /\ dedup' = dedup
                    /\ pastes_for_save' = pastes_for_save
                    /\ regexes' = regexes /\ verbose' = verbose
      ]_vars

\* C19 witness: the first cycle recorded /b and buffered its paste; the
\* second poll was answered with a ban, the buffer is empty and the seen set
\* is still { /b } during the wait
C19_Witness ==
    /\ pc = "BannedWait"
    /\ status = ACCESS_DENIED
    /\ cycle = 1
    /\ ban_i = 1
    /\ prev_checked_ids = { IdB }
    /\ new_checked_ids = {}
    /\ pastes_for_save = << >>

\* C20: no identifier becomes seen without an outcome.  Every identifier that
\* the commit at the end of a cycle adds to prev_checked_ids had its paste
\* persisted, buffered or reported as 'Error reading paste' in that cycle:
\* none of them is an identifier whose check_paste was cut short by an
\* interrupt and not run again.
C20_SeenHasOutcome ==
    [][ (pc = "For" /\ pc' = "Sleeping") =>
            (prev_checked_ids' \ prev_checked_ids) \cap unresolved = {} ]_vars

====
